---- MODULE Spec2Model ----
(***************************************************************************)
(* A model of xpublish/rest.py: the RestAccessor that publishes an xarray  *)
(* Dataset as a Zarr-style HTTP resource.                                  *)
(*                                                                         *)
(*   Spec       registration (RestAccessor.__init__) followed by the HTTP   *)
(*              handlers of make_app, one action per handler               *)
(*   SpecIdx    get_indexers / slice_axis applied to drawn inputs           *)
(*   SpecCodec  _encode_chunk applied to drawn inputs                       *)
(*                                                                         *)
(* Python values are modelled as follows.  A dict is a function whose      *)
(* DOMAIN is its key set.  An optional value (None or a value) is a         *)
(* sequence of length 0 or 1.  A str that the code parses (the chunk key)  *)
(* is a sequence of one-character strings.  A raised exception is the      *)
(* "err" field of an operator's result.                                    *)
(***************************************************************************)
EXTENDS Integers, Sequences, FiniteSets, TLC

VARIABLES
    obj,        \* self._obj: the Dataset
    encoding,   \* self._encoding: per-variable encoding overrides
    metadata,   \* self._metadata: the consolidated metadata document
    app,        \* self._app: the set of routes registered by make_app
    resp,       \* the response of the request being answered
    idxArgs,    \* SpecIdx: the arguments of get_indexers
    idxRes,     \* SpecIdx: its result
    encArgs,    \* SpecCodec: the arguments of _encode_chunk
    encRes      \* SpecCodec: its result

vars == <<obj, encoding, metadata, app, resp, idxArgs, idxRes, encArgs, encRes>>

----------------------------------------------------------------------------
(* Bounds of the model. *)

MaxExtent == 3
MaxChunk == 2
MaxBlock == 2
MaxCoord == 2
MaxKeyLen == 3
MaxFilters == 2

----------------------------------------------------------------------------
(* Module-level constants of rest.py and of the zarr names it imports. *)

zarr_format == 2
zarr_consolidated_format == 1
zarr_metadata_key == ".zmetadata"
array_meta_key == ".zarray"
attrs_key == ".zattrs"
group_meta_key == ".zgroup"
_DIMENSION_KEY == "_ARRAY_DIMENSIONS"

----------------------------------------------------------------------------
(* Python values. *)

None == <<>>
Some(v) == <<v>>
EmptyDict == [k \in {} |-> k]

\* dict.get(key, default)
dict_get(d, key, default) == IF key \in DOMAIN d THEN d[key] ELSE default

Range(s) == {s[i] : i \in DOMAIN s}
Min(a, b) == IF a < b THEN a ELSE b
Max(a, b) == IF a > b THEN a ELSE b

RECURSIVE Prod(_)
Prod(s) == IF s = <<>> THEN 1 ELSE Head(s) * Prod(Tail(s))

Digits == {"0", "1", "2", "3", "4", "5", "6", "7", "8", "9"}

DigitVal(c) ==
    CASE c = "0" -> 0 [] c = "1" -> 1 [] c = "2" -> 2 [] c = "3" -> 3
      [] c = "4" -> 4 [] c = "5" -> 5 [] c = "6" -> 6 [] c = "7" -> 7
      [] c = "8" -> 8 [] c = "9" -> 9

\* str.split(sep): the pieces between the occurrences of sep; "" gives [""]
RECURSIVE split(_, _)
split(s, sep) ==
    IF \A i \in 1..Len(s) : s[i] # sep
    THEN <<s>>
    ELSE LET i == CHOOSE j \in 1..Len(s) :
                      s[j] = sep /\ \A h \in 1..(j - 1) : s[h] # sep
         IN  <<SubSeq(s, 1, i - 1)>> \o split(SubSeq(s, i + 1, Len(s)), sep)

\* int(str) of Python, on the characters of the model's alphabet: an optional
\* sign followed by at least one decimal digit; anything else is a ValueError.
int_body(tok) ==
    IF Len(tok) > 0 /\ tok[1] \in {"-", "+"} THEN Tail(tok) ELSE tok

int_ok(tok) ==
    /\ Len(int_body(tok)) > 0
    /\ \A i \in 1..Len(int_body(tok)) : int_body(tok)[i] \in Digits

RECURSIVE dec(_)
dec(ds) ==
    IF ds = <<>> THEN 0
    ELSE 10 * dec(SubSeq(ds, 1, Len(ds) - 1)) + DigitVal(ds[Len(ds)])

int(tok) ==
    IF Len(tok) > 0 /\ tok[1] = "-" THEN 0 - dec(int_body(tok))
    ELSE dec(int_body(tok))

----------------------------------------------------------------------------
(* Coordinate resolver: slice_axis, get_indexers. *)

slice_axis_short(key, chunk_size) ==
    [start |-> key * chunk_size, stop |-> (key + 1) * chunk_size - 1]

\* slice(key * chunk_size, (key + 1) * chunk_size)
slice_axis(key, chunk_size) ==
    [start |-> key * chunk_size, stop |-> (key + 1) * chunk_size]

\* tuple(slice_axis(int(i), c) for i, c in zip(ikeys, chunks)): zip stops at
\* the shorter of the two, and int() is applied to the paired tokens only.
get_indexers(key, chunks) ==
    LET ikeys == split(key, ".")
        n == Min(Len(ikeys), Len(chunks))
    IN  IF \E k \in 1..n : ~int_ok(ikeys[k])
        THEN [err |-> "ValueError", value |-> <<>>]
        ELSE [err |-> "",
              value |-> [k \in 1..n |-> slice_axis(int(ikeys[k]), chunks[k])]]

----------------------------------------------------------------------------
(* Codec invoker: _encode_chunk.  A buffer records its element kind, the   *)
(* codecs applied to it so far (innermost first) and the raw bytes it was  *)
(* made from; codec.encode is the external collaborator.                   *)

\* Codecs whose encode turns any input into a bytes buffer (object codecs);
\* the others keep the element kind of their input.
ObjectCodecs == {"pickle"}

codec_encode(codec, chunk) ==
    [dtype |-> IF codec \in ObjectCodecs THEN "uint8" ELSE chunk.dtype,
     layers |-> Append(chunk.layers, codec),
     raw |-> chunk.raw]

\* ensure_ndarray(chunk).dtype
ensure_ndarray_dtype(chunk) == chunk.dtype

RECURSIVE apply_filters_reversed(_, _)
apply_filters_reversed(chunk, fs) ==
    IF fs = <<>> THEN chunk
    ELSE apply_filters_reversed(codec_encode(fs[Len(fs)], chunk),
                                SubSeq(fs, 1, Len(fs) - 1))

\* for f in filters: chunk = f.encode(chunk)
RECURSIVE apply_filters(_, _)
apply_filters(chunk, fs) ==
    IF fs = <<>> THEN chunk
    ELSE apply_filters(codec_encode(Head(fs), chunk), Tail(fs))

\* filters and compressor are optional; calls is the order in which the
\* codecs' encode methods were invoked.
_encode_chunk(chunk, filters, compressor) ==
    LET fs == IF filters # None /\ filters[1] # <<>> THEN filters[1] ELSE <<>>
        filtered == apply_filters(chunk, fs)
    IN  IF ensure_ndarray_dtype(filtered) = "object"
        THEN [err |-> "RuntimeError", value |-> None, calls |-> fs]
        ELSE IF compressor # None
        THEN [err |-> "",
              value |-> Some(codec_encode(compressor[1], filtered)),
              calls |-> Append(fs, compressor[1])]
        ELSE [err |-> "", value |-> Some(filtered), calls |-> fs]

----------------------------------------------------------------------------
(* The data source: xarray variables backed by numpy or dask arrays.  An   *)
(* array is described by its shape; the element at C-order offset o has    *)
(* the value o, and its bytes are numbered o * itemsize .. (o+1)*itemsize-1.*)

\* numpy.dtype(dtype).itemsize for the dtype strings of the model
itemsize(dtype) == CASE dtype = "<f8" -> 8 [] dtype = "<i4" -> 4

\* slice.indices(n) for a slice with step 1: negative bounds count from the
\* end, and both bounds are clamped to 0..n
clamp_index(v, n) == IF v < 0 THEN Max(v + n, 0) ELSE Min(v, n)

slice_indices(s, n) ==
    [start |-> clamp_index(s.start, n), stop |-> clamp_index(s.stop, n)]

\* The C-order offsets selected by one range per axis of an array of the
\* given shape, in row-major order.
RECURSIVE row_major(_, _)
row_major(ranges, shape) ==
    IF ranges = <<>> THEN <<0>>
    ELSE LET inner == row_major(Tail(ranges), Tail(shape))
             stride == Prod(Tail(shape))
             r == Head(ranges)
             cnt == Max(r.stop - r.start, 0)
             L == Len(inner)
         IN  [p \in 1..(cnt * L) |->
                 (r.start + ((p - 1) \div L)) * stride + inner[((p - 1) % L) + 1]]

\* da.data[index] for a tuple of slices: numpy and dask raise IndexError when
\* there are more indices than dimensions, take the axes that have no index
\* whole, and clamp each slice to the axis.
data_getitem(da, index) ==
    IF Len(index) > Len(da.shape)
    THEN [err |-> "IndexError", lazy |-> FALSE, elems |-> <<>>]
    ELSE [err |-> "",
          lazy |-> da.chunks # None,
          elems |-> row_major(
              [k \in 1..Len(da.shape) |->
                  IF k <= Len(index) THEN slice_indices(index[k], da.shape[k])
                  ELSE [start |-> 0, stop |-> da.shape[k]]],
              da.shape)]

\* data_chunk.compute(): materialise a dask array
compute(data_chunk) == [data_chunk EXCEPT !.lazy = FALSE]

\* data_chunk.tobytes(): the bytes of the elements, in C order
tobytes(elems, size) ==
    [dtype |-> "uint8",
     layers |-> <<>>,
     raw |-> [i \in 1..(Len(elems) * size) |->
                 elems[((i - 1) \div size) + 1] * size + ((i - 1) % size)]]

----------------------------------------------------------------------------
(* Metadata extractor: extract_zattrs, extract_zarray. *)

\* xarray's _encode_zarr_attr_value: numpy arrays become lists, numpy scalars
\* native scalars, anything else is kept
_encode_zarr_attr_value(v) ==
    CASE v.kind = "np.ndarray" -> [kind |-> "list", v |-> v.v]
      [] v.kind = "np.generic" -> [kind |-> "scalar", v |-> v.v]
      [] OTHER -> v

encode_attrs(attrs) == [k \in DOMAIN attrs |-> _encode_zarr_attr_value(attrs[k])]

extract_zattrs(da) ==
    (_DIMENSION_KEY :> da.dims) @@ encode_attrs(da.attrs)

\* zarr.util.normalize_shape: a tuple of ints
normalize_shape(shape) == shape

\* [c[0] for c in da.chunks]
first_blocks(chunks) == [d \in 1..Len(chunks) |-> chunks[d][1]]

resolve_chunks_native_first(da, enc) ==
    IF da.chunks # None THEN first_blocks(da.chunks[1])
    ELSE IF dict_get(enc, "chunks", None) # None THEN dict_get(enc, "chunks", None)[1]
    ELSE da.shape

\* meta["chunks"] after lines 128 and 135-139.  An entry of the encoding
\* dict is held as Some(value); encoding.get("chunks", None) is None when
\* the key is absent.
resolve_chunks(da, enc) ==
    LET chunks == dict_get(enc, "chunks", None)
    IN  IF chunks = None
        THEN IF da.chunks # None THEN first_blocks(da.chunks[1])
             ELSE da.shape
        ELSE chunks[1]

extract_zarray(da, enc) ==
    [compressor |-> dict_get(enc, "compressor",
                             dict_get(da.encoding, "compressor", None)),
     filters |-> dict_get(enc, "filters", dict_get(da.encoding, "filters", None)),
     chunks |-> resolve_chunks(da, enc),
     dtype |-> da.dtype,
     fill_value |-> None,
     order |-> "C",
     shape |-> normalize_shape(da.shape),
     zarr_format |-> zarr_format]

----------------------------------------------------------------------------
(* Metadata aggregator: RestAccessor.get_zgroup, get_zattrs, get_zmetadata. *)

get_zgroup == [zarr_format |-> zarr_format]

get_zattrs(o) == encode_attrs(o.attrs)

zattrs_path(key) == key \o "/" \o attrs_key
zarray_path(key) == key \o "/" \o array_meta_key

\* for key, da in self._obj.variables.items(): two entries per variable
RECURSIVE variable_entries(_, _, _, _)
variable_entries(meta, o, enc, keys) ==
    IF keys = <<>> THEN meta
    ELSE LET key == Head(keys)
             da == o.variables[key]
         IN  variable_entries(
                 (zarray_path(key) :> extract_zarray(da, dict_get(enc, key, EmptyDict)))
                     @@ (zattrs_path(key) :> extract_zattrs(da))
                     @@ meta,
                 o, enc, Tail(keys))

get_zmetadata_skipping_last(o, enc) ==
    [zarr_consolidated_format |-> zarr_consolidated_format,
     metadata |-> variable_entries(
         (group_meta_key :> get_zgroup) @@ (attrs_key :> get_zattrs(o)),
         o, enc, SubSeq(o.names, 1, Len(o.names) - 1))]

get_zmetadata(o, enc) ==
    [zarr_consolidated_format |-> zarr_consolidated_format,
     metadata |-> variable_entries(
         (group_meta_key :> get_zgroup) @@ (attrs_key :> get_zattrs(o)),
         o, enc, o.names)]

\* zarr.util.json_dumps: the JSON text of a value
json_dumps(v) == [json |-> v]

----------------------------------------------------------------------------
(* Chunk server: the body of the get_key handler. *)

get_key_defaulting(o, meta, var, chunk) ==
    [err |-> "", index |-> Some(<<>>), body |-> Some(tobytes(<<>>, 1)), calls |-> <<>>]

get_key(o, meta, var, chunk) ==
    IF var \notin Range(o.names)
    THEN [err |-> "KeyError", index |-> None, body |-> None, calls |-> <<>>]
    ELSE IF zarray_path(var) \notin DOMAIN meta.metadata
    THEN [err |-> "KeyError", index |-> None, body |-> None, calls |-> <<>>]
    ELSE LET da == o.variables[var]
             arr_meta == meta.metadata[zarray_path(var)]
             index == get_indexers(chunk, arr_meta.chunks)
             sliced == data_getitem(da, index.value)
             data_chunk == IF sliced.lazy THEN compute(sliced) ELSE sliced
             echunk == _encode_chunk(tobytes(data_chunk.elems, itemsize(da.dtype)),
                                     arr_meta.filters, arr_meta.compressor)
         IN  IF index.err # ""
             THEN [err |-> index.err, index |-> None, body |-> None, calls |-> <<>>]
             ELSE IF sliced.err # ""
             THEN [err |-> sliced.err, index |-> Some(index.value),
                   body |-> None, calls |-> <<>>]
             ELSE [err |-> echunk.err, index |-> Some(index.value),
                   body |-> echunk.value, calls |-> echunk.calls]

----------------------------------------------------------------------------
(* The inputs: the Datasets and encodings a caller registers, and the      *)
(* requests a client sends.                                                *)

DimNames == <<"x", "y">>

Shapes == UNION {[1..n -> 0..MaxExtent] : n \in 0..Len(DimNames)}

ChunkVectors == UNION {[1..n -> 0..MaxChunk] : n \in 0..Len(DimNames)}

\* the blocks dask makes of an axis of extent s rechunked to block size f
dask_blocks(s, f) ==
    IF s = 0 THEN <<0>>
    ELSE [i \in 1..((s + f - 1) \div f) |-> IF i * f <= s THEN f ELSE s - (i - 1) * f]

\* Variable "a": float64 on the dimensions x, y; a numpy array (native = None)
\* or a dask array rechunked to blocks of native[1]
VariableA(shape, native) ==
    [dims |-> SubSeq(DimNames, 1, Len(shape)),
     shape |-> shape,
     chunks |-> IF native = None THEN None
                ELSE Some([d \in 1..Len(shape) |-> dask_blocks(shape[d], native[1])]),
     dtype |-> "<f8",
     attrs |-> [units |-> [kind |-> "str", v |-> "m"]],
     encoding |-> EmptyDict]

\* Variable "b": int32 on its own dimension t, read from a compressed store
VariableB ==
    [dims |-> <<"t">>,
     shape |-> <<2>>,
     chunks |-> None,
     dtype |-> "<i4",
     attrs |-> [scale |-> [kind |-> "np.generic", v |-> "1"]],
     encoding |-> [compressor |-> Some("zlib")]]

NameLists == {<<>>, <<"b">>, <<"a", "b">>}

Dataset(names, a) ==
    [attrs |-> [history |-> [kind |-> "np.ndarray", v |-> "h"]],
     names |-> names,
     variables |-> [n \in Range(names) |-> IF n = "a" THEN a ELSE VariableB]]

\* the encoding argument: an optional chunks override for "a", a filter for "b"
Encoding(names, override) ==
    [n \in {m \in Range(names) : m = "b" \/ override # None} |->
        IF n = "a" THEN [chunks |-> override]
        ELSE [filters |-> Some(<<"delta">>)]]

\* str(n) for n >= 0
RECURSIVE str(_)
str(n) ==
    LET d == CHOOSE c \in Digits : DigitVal(c) = n % 10
    IN  IF n < 10 THEN <<d>> ELSE str(n \div 10) \o <<d>>

\* ".".join(str(i) for i in coords), the key a Zarr client asks for; the
\* key of a 0-d array's only chunk is "0"
RECURSIVE chunk_key(_)
chunk_key(coords) ==
    IF coords = <<>> THEN <<"0">>
    ELSE IF Len(coords) = 1 THEN str(coords[1])
    ELSE str(Head(coords)) \o <<".">> \o chunk_key(Tail(coords))

ClientKeys ==
    {chunk_key(p) : p \in UNION {[1..n -> 0..MaxCoord] : n \in 1..Len(DimNames)}}

OtherKeys ==
    {<<"a", ".", "b">>, <<"-", "1", ".", "0">>, <<"-", "1">>, <<"0", ".">>,
     <<"0", ".", "0", ".", "0">>}

RequestKeys == ClientKeys \cup OtherKeys

RequestNames == {"a", "b", "nonexistent"}

KeyChars == {"0", "1", ".", "-", "a"}

KeyStrings == UNION {[1..n -> KeyChars] : n \in 0..MaxKeyLen}

FilterCodecs == {"delta", "pickle"}

FilterLists == UNION {[1..n -> FilterCodecs] : n \in 0..MaxFilters}

Buffers ==
    [dtype : {"uint8", "object"}, layers : {<<>>}, raw : {<<>>, <<0, 1>>}]

----------------------------------------------------------------------------
(* State. *)

Routes == {"/.zgroup", "/.zattrs", "/.zmetadata", "/keys", "/{var}/{chunk}"}

NoResp ==
    [route |-> "", var |-> "", chunk |-> <<>>, err |-> "", index |-> None,
     body |-> None, calls |-> <<>>]

NoIdxArgs == [key |-> <<>>, chunks |-> <<>>]
NoIdxRes == [done |-> FALSE, err |-> "", value |-> <<>>]
NoEncArgs ==
    [chunk |-> [dtype |-> "uint8", layers |-> <<>>, raw |-> <<>>],
     filters |-> None, compressor |-> None]
NoEncRes == [done |-> FALSE, err |-> "", value |-> None, calls |-> <<>>]

NotConstructed ==
    /\ obj = Dataset(<<>>, VariableB)
    /\ encoding = EmptyDict
    /\ metadata = EmptyDict
    /\ app = {}
    /\ resp = NoResp

Init ==
    /\ NotConstructed
    /\ idxArgs = NoIdxArgs /\ idxRes = NoIdxRes
    /\ encArgs = NoEncArgs /\ encRes = NoEncRes

registered == app # {}
idle == registered /\ resp = NoResp

----------------------------------------------------------------------------
(* Actions of Spec. *)

\* RestAccessor.__init__: keep the Dataset and the encoding, build the
\* metadata document once, register the routes.
RestAccessor_init ==
    /\ app = {}
    /\ \E names \in NameLists, shape \in Shapes,
          native \in {None} \cup {Some(f) : f \in 1..MaxBlock},
          override \in {None} \cup {Some(c) : c \in ChunkVectors} :
          /\ obj' = Dataset(names, VariableA(shape, native))
          /\ encoding' = Encoding(names, override)
          /\ metadata' = get_zmetadata(obj', encoding')
    /\ app' = Routes
    /\ UNCHANGED <<resp, idxArgs, idxRes, encArgs, encRes>>

Answer(route, var, chunk, r) ==
    /\ idle
    /\ route \in app
    /\ resp' = [route |-> route, var |-> var, chunk |-> chunk, err |-> r.err,
                index |-> r.index, body |-> r.body, calls |-> r.calls]

Ok(body) == [err |-> "", index |-> None, body |-> Some(body), calls |-> <<>>]

\* GET /.zgroup
get_zgroup_handler ==
    /\ Answer("/.zgroup", "", <<>>, Ok(json_dumps(get_zgroup)))
    /\ UNCHANGED <<obj, encoding, metadata, app, idxArgs, idxRes, encArgs, encRes>>

\* GET /.zattrs
get_zattrs_handler ==
    /\ Answer("/.zattrs", "", <<>>, Ok(json_dumps(get_zattrs(obj))))
    /\ UNCHANGED <<obj, encoding, metadata, app, idxArgs, idxRes, encArgs, encRes>>

\* GET /.zmetadata
get_zmetadata_handler ==
    /\ Answer("/.zmetadata", "", <<>>, Ok(metadata))
    /\ UNCHANGED <<obj, encoding, metadata, app, idxArgs, idxRes, encArgs, encRes>>

\* GET /keys
list_keys ==
    /\ Answer("/keys", "", <<>>, Ok(json_dumps(obj.names)))
    /\ UNCHANGED <<obj, encoding, metadata, app, idxArgs, idxRes, encArgs, encRes>>

get_key_handler_popping ==
    /\ \E var \in RequestNames, chunk \in RequestKeys :
          /\ Answer("/{var}/{chunk}", var, chunk, get_key(obj, metadata, var, chunk))
          /\ metadata' =
                 IF var \in Range(obj.names)
                 THEN [metadata EXCEPT !.metadata[zarray_path(var)].filters = None]
                 ELSE metadata
    /\ UNCHANGED <<obj, encoding, app, idxArgs, idxRes, encArgs, encRes>>

\* GET /{var}/{chunk}
get_key_handler ==
    /\ \E var \in RequestNames, chunk \in RequestKeys :
          Answer("/{var}/{chunk}", var, chunk, get_key(obj, metadata, var, chunk))
    /\ UNCHANGED <<obj, encoding, metadata, app, idxArgs, idxRes, encArgs, encRes>>

\* the handler has returned and the response is sent: the next request
Respond ==
    /\ registered
    /\ resp # NoResp
    /\ resp' = NoResp
    /\ UNCHANGED <<obj, encoding, metadata, app, idxArgs, idxRes, encArgs, encRes>>

Next ==
    \/ RestAccessor_init
    \/ get_zgroup_handler
    \/ get_zattrs_handler
    \/ get_zmetadata_handler
    \/ list_keys
    \/ get_key_handler
    \/ Respond

Spec == Init /\ [][Next]_vars

----------------------------------------------------------------------------
(* SpecIdx: get_indexers on every key string and chunk vector of the bounds. *)

InitIdx ==
    /\ NotConstructed
    /\ idxArgs \in [key : KeyStrings, chunks : ChunkVectors]
    /\ idxRes = NoIdxRes
    /\ encArgs = NoEncArgs /\ encRes = NoEncRes

ResolveIdx ==
    /\ ~idxRes.done
    /\ idxRes' = [done |-> TRUE,
                  err |-> get_indexers(idxArgs.key, idxArgs.chunks).err,
                  value |-> get_indexers(idxArgs.key, idxArgs.chunks).value]
    /\ UNCHANGED <<obj, encoding, metadata, app, resp, idxArgs, encArgs, encRes>>

SpecIdx == InitIdx /\ [][ResolveIdx]_vars

----------------------------------------------------------------------------
(* SpecCodec: _encode_chunk on every buffer, filter list and compressor.  *)

InitCodec ==
    /\ NotConstructed
    /\ idxArgs = NoIdxArgs /\ idxRes = NoIdxRes
    /\ encArgs \in [chunk : Buffers,
                    filters : {None} \cup {Some(fs) : fs \in FilterLists},
                    compressor : {None, Some("zlib")}]
    /\ encRes = NoEncRes

EncodeChunk ==
    /\ ~encRes.done
    /\ LET r == _encode_chunk(encArgs.chunk, encArgs.filters, encArgs.compressor)
       IN  encRes' = [done |-> TRUE, err |-> r.err, value |-> r.value,
                      calls |-> r.calls]
    /\ UNCHANGED <<obj, encoding, metadata, app, resp, idxArgs, idxRes, encArgs>>

SpecCodec == InitCodec /\ [][EncodeChunk]_vars

----------------------------------------------------------------------------
(* Vocabulary of the properties, defined without the operators above.     *)

\* the positions of the dots of a key, and its tokens: the pieces between them
DotPositions(key) == {i \in 1..Len(key) : key[i] = "."}

Tokens(key) ==
    LET dots == DotPositions(key)
        bound(k) == IF k = 0 THEN 0
                    ELSE IF k > Cardinality(dots) THEN Len(key) + 1
                    ELSE CHOOSE i \in dots : Cardinality({j \in dots : j < i}) = k - 1
    IN  [k \in 1..(Cardinality(dots) + 1) |->
            [i \in 1..(bound(k) - bound(k - 1) - 1) |-> key[bound(k - 1) + i]]]

\* a token that is a non-negative integer: digits only, at least one
IsNatToken(tok) == Len(tok) > 0 /\ \A i \in 1..Len(tok) : tok[i] \in Digits

RECURSIVE Pow10(_)
Pow10(n) == IF n = 0 THEN 1 ELSE 10 * Pow10(n - 1)

RECURSIVE NatFrom(_, _)
NatFrom(tok, i) ==
    IF i > Len(tok) THEN 0
    ELSE DigitVal(tok[i]) * Pow10(Len(tok) - i) + NatFrom(tok, i + 1)

NatOf(tok) == NatFrom(tok, 1)

\* a coordinate string of n dot-separated non-negative integers
IsCoordinate(key, n) ==
    /\ Len(Tokens(key)) = n
    /\ \A k \in 1..n : IsNatToken(Tokens(key)[k])

\* the multi-index of the element at C-order offset o
Unravel(o, shape) ==
    [k \in 1..Len(shape) |->
        (o \div Prod(SubSeq(shape, k + 1, Len(shape)))) % shape[k]]

Offsets(shape) == 0..(Prod(shape) - 1)

\* the elements of the array inside the ranges (axes without a range whole)
InRanges(x, ranges) ==
    \A k \in 1..Len(ranges) : ranges[k].start <= x[k] /\ x[k] < ranges[k].stop

Selected(shape, ranges) ==
    {o \in Offsets(shape) : InRanges(Unravel(o, shape), ranges)}

\* raw holds exactly the bytes of the elements, in ascending (row-major) order
HoldsInOrder(raw, elems, size) ==
    /\ Len(raw) = Cardinality(elems) * size
    /\ \A i \in 1..Len(raw) : raw[i] \div size \in elems
    /\ \A i \in 1..(Len(raw) - 1) : raw[i] < raw[i + 1]

ElementsOf(raw, size) == {raw[i] \div size : i \in 1..Len(raw)}

Zarray(var) == metadata.metadata[zarray_path(var)]

IsChunkRequest == resp.route = "/{var}/{chunk}"

----------------------------------------------------------------------------
(* Properties of the coordinate resolver, checked under SpecIdx.          *)

\* C1: for a coordinate string of n dot-separated non-negative integers and
\* a chunk-size vector of length n, get_indexers returns exactly n ranges,
\* and the range on axis k is [i_k * c_k, (i_k + 1) * c_k).
C1_ResolvedRanges ==
    (idxRes.done /\ IsCoordinate(idxArgs.key, Len(idxArgs.chunks))) =>
        /\ idxRes.err = ""
        /\ Len(idxRes.value) = Len(idxArgs.chunks)
        /\ \A k \in 1..Len(idxArgs.chunks) :
              LET i == NatOf(Tokens(idxArgs.key)[k])
                  c == idxArgs.chunks[k]
              IN  /\ idxRes.value[k].start = i * c
                  /\ idxRes.value[k].stop = (i + 1) * c

C1_Witness ==
    /\ idxRes.done
    /\ idxArgs.key = <<"1", ".", "0">>
    /\ idxArgs.chunks = <<2, 1>>
    /\ idxRes.value = <<[start |-> 2, stop |-> 4], [start |-> 0, stop |-> 1]>>

----------------------------------------------------------------------------
(* Properties of the codec invoker, checked under SpecCodec.              *)

\* the element kind of a buffer after the filters: an object codec leaves
\* bytes, every other codec keeps the kind
KindAfter(kind, fs) ==
    IF \E j \in 1..Len(fs) : fs[j] \in ObjectCodecs THEN "uint8" ELSE kind

\* C8: the filters are applied in declared order, then the element kind is
\* checked (object kind: failure, and the compressor is not invoked), then
\* the compressor, if configured, is applied once; without filters and
\* compressor the result is the input buffer.
C8_EncodeOrder ==
    encRes.done =>
        LET fs == IF encArgs.filters = None THEN <<>> ELSE encArgs.filters[1]
            cs == IF encArgs.compressor = None THEN <<>> ELSE encArgs.compressor
            kind == KindAfter(encArgs.chunk.dtype, fs)
        IN  IF kind = "object"
            THEN /\ encRes.err = "RuntimeError"
                 /\ encRes.value = None
                 /\ encRes.calls = fs
            ELSE /\ encRes.err = ""
                 /\ encRes.calls = fs \o cs
                 /\ encRes.value =
                        Some([dtype |-> kind,
                              layers |-> encArgs.chunk.layers \o fs \o cs,
                              raw |-> encArgs.chunk.raw])
                 /\ (fs = <<>> /\ cs = <<>> => encRes.value = Some(encArgs.chunk))

C8_Witness ==
    /\ encRes.done
    /\ encArgs.chunk.dtype = "object"
    /\ encArgs.filters = Some(<<"delta", "pickle">>)
    /\ encArgs.compressor = Some("zlib")
    /\ encRes.err = ""
    /\ encRes.value[1].layers = <<"delta", "pickle", "zlib">>

----------------------------------------------------------------------------
(* Properties of registration and of the handlers, checked under Spec.    *)

VariableNames == Range(obj.names)

Override(var) == dict_get(encoding, var, EmptyDict)

AllZero(p) == \A k \in 1..Len(p) : p[k] = 0

Coordinates(n) == [1..n -> 0..MaxCoord]

\* C3: the cached chunks are the override's chunks entry if there is one,
\* else the first block of each dimension of a natively chunked variable,
\* else the shape; in the last case the all-zero coordinate selects the whole
\* array and no other coordinate selects any element.
C3_ChunkPrecedence ==
    registered =>
        \A var \in VariableNames :
            LET da == obj.variables[var]
                chunks == Zarray(var).chunks
            IN  IF "chunks" \in DOMAIN Override(var)
                THEN chunks = Override(var).chunks[1]
                ELSE IF da.chunks # None
                THEN /\ Len(chunks) = Len(da.shape)
                     /\ \A d \in 1..Len(da.shape) : chunks[d] = da.chunks[1][d][1]
                ELSE /\ chunks = da.shape
                     /\ \A p \in Coordinates(Len(da.shape)) :
                           LET r == get_key(obj, metadata, var, chunk_key(p))
                           IN  /\ r.err = ""
                               /\ ElementsOf(r.body[1].raw, itemsize(da.dtype)) =
                                      IF AllZero(p) THEN Offsets(da.shape) ELSE {}

C3_Witness ==
    /\ registered
    /\ "a" \in VariableNames
    /\ obj.variables["a"].shape = <<3, 3>>
    /\ obj.variables["a"].chunks = Some(<<(<<2, 1>>), (<<2, 1>>)>>)
    /\ Override("a") = [chunks |-> Some(<<1, 2>>)]
    /\ Zarray("a").chunks = <<1, 2>>

\* C4: every variable of a registered Dataset has one chunk size and one
\* dimension name per dimension, and every chunk size is positive.
C4_RegisteredShapesAgree ==
    registered =>
        \A var \in VariableNames :
            /\ Len(Zarray(var).shape) = Len(Zarray(var).chunks)
            /\ Len(Zarray(var).chunks) = Len(obj.variables[var].dims)
            /\ \A k \in 1..Len(Zarray(var).chunks) : Zarray(var).chunks[k] > 0

\* C5: once the accessor is constructed no request changes the metadata
\* document, and every /.zmetadata response is that document.
C5_MetadataStable ==
    [][registered =>
          /\ metadata' = metadata
          /\ (resp'.route = "/.zmetadata" => resp'.body = Some(metadata))]_vars

C5_Witness ==
    /\ registered
    /\ obj.names = <<"a", "b">>
    /\ resp.route = "/.zmetadata"
    /\ resp.body = Some(metadata)
    /\ zarray_path("b") \in DOMAIN metadata.metadata

\* C6: a chunk request for a name that is no variable of the Dataset fails
\* with KeyError whatever the coordinate string: nothing is resolved, sliced
\* or encoded.
C6_UnknownVariable ==
    (IsChunkRequest /\ resp.var \notin VariableNames) =>
        /\ resp.err = "KeyError"
        /\ resp.index = None
        /\ resp.body = None
        /\ resp.calls = <<>>

C6_Witness ==
    /\ IsChunkRequest
    /\ obj.names = <<"a", "b">>
    /\ resp.var = "nonexistent"
    /\ resp.chunk = <<"a", ".", "b">>
    /\ resp.err = "KeyError"

\* C9: the metadata mapping holds .zattrs and .zgroup and, for exactly the
\* variable names that /keys lists, <name>/.zattrs and <name>/.zarray; a
\* chunk request for a listed variable finds its zarray record.
C9_MetadataComplete ==
    registered =>
        /\ DOMAIN metadata.metadata =
               {attrs_key, group_meta_key}
                   \cup {zattrs_path(n) : n \in VariableNames}
                   \cup {zarray_path(n) : n \in VariableNames}
        /\ \A n \in RequestNames \ VariableNames :
               /\ zattrs_path(n) \notin DOMAIN metadata.metadata
               /\ zarray_path(n) \notin DOMAIN metadata.metadata
        /\ (resp.route = "/keys" =>
               \A i \in 1..Len(resp.body[1].json) :
                   /\ zattrs_path(resp.body[1].json[i]) \in DOMAIN metadata.metadata
                   /\ zarray_path(resp.body[1].json[i]) \in DOMAIN metadata.metadata)
        /\ (IsChunkRequest /\ resp.var \in VariableNames => resp.err # "KeyError")

C9_Witness ==
    /\ registered
    /\ resp.route = "/keys"
    /\ resp.body = Some(json_dumps(<<"a", "b">>))
    /\ zarray_path("b") \in DOMAIN metadata.metadata

----------------------------------------------------------------------------
(* Properties of the chunk server, checked under Spec.                    *)

\* C2: a chunk request whose coordinate string has a token count other than
\* the length of the chunk-size vector, or a token that is no non-negative
\* integer, fails with ValueError and produces neither ranges nor bytes.
\* Stated for the variables that have a dimension and one chunk size per
\* dimension, the ones for which a well-formed coordinate string exists.
C2_MalformedRejected ==
    (/\ IsChunkRequest
     /\ resp.var \in VariableNames
     /\ Len(Zarray(resp.var).chunks) = Len(obj.variables[resp.var].shape)
     /\ Len(Zarray(resp.var).chunks) > 0
     /\ ~IsCoordinate(resp.chunk, Len(Zarray(resp.var).chunks))) =>
        /\ resp.err = "ValueError"
        /\ resp.index = None
        /\ resp.body = None

\* The part of C2 the code implements: a token that is paired with a chunk
\* size and is not an integer literal fails the request with ValueError.
C2_NonIntegerRejected ==
    (/\ IsChunkRequest
     /\ resp.var \in VariableNames
     /\ \E k \in 1..Min(Len(Tokens(resp.chunk)), Len(Zarray(resp.var).chunks)) :
           LET tok == Tokens(resp.chunk)[k]
           IN  ~IsNatToken(tok) /\ ~(Len(tok) > 1 /\ tok[1] = "-" /\ IsNatToken(Tail(tok)))) =>
        /\ resp.err = "ValueError"
        /\ resp.index = None
        /\ resp.body = None

Uncompressed(var) == Zarray(var).filters = None /\ Zarray(var).compressor = None

\* C7: a chunk request for a variable of the Dataset with one non-negative
\* integer per dimension succeeds; the payload holds exactly the elements of
\* the array inside the resolved ranges, in row-major order (none when a
\* range lies outside the array), and for ranges inside the array and no
\* filters or compressor it is product(chunks) * itemsize bytes long.
C7_NoBoundsCheck ==
    (/\ IsChunkRequest
     /\ resp.var \in VariableNames
     /\ IsCoordinate(resp.chunk, Len(obj.variables[resp.var].shape))) =>
        LET da == obj.variables[resp.var]
            size == itemsize(da.dtype)
        IN  /\ resp.err = ""
            /\ HoldsInOrder(resp.body[1].raw, Selected(da.shape, resp.index[1]), size)
            /\ (/\ Uncompressed(resp.var)
                /\ \A k \in 1..Len(resp.index[1]) : resp.index[1][k].stop <= da.shape[k])
               => Len(resp.body[1].raw) = Prod(Zarray(resp.var).chunks) * size

\* C7 for the variables that have one chunk size per dimension, with the
\* ranges [i_k * c_k, (i_k + 1) * c_k) of the requested coordinate.
C7_WhenShapesAgree ==
    (/\ IsChunkRequest
     /\ resp.var \in VariableNames
     /\ Len(Zarray(resp.var).chunks) = Len(obj.variables[resp.var].shape)
     /\ IsCoordinate(resp.chunk, Len(obj.variables[resp.var].shape))) =>
        LET da == obj.variables[resp.var]
            size == itemsize(da.dtype)
            c == Zarray(resp.var).chunks
            ranges == [k \in 1..Len(da.shape) |->
                          [start |-> NatOf(Tokens(resp.chunk)[k]) * c[k],
                           stop |-> (NatOf(Tokens(resp.chunk)[k]) + 1) * c[k]]]
        IN  /\ resp.err = ""
            /\ HoldsInOrder(resp.body[1].raw, Selected(da.shape, ranges), size)
            /\ (\E k \in 1..Len(da.shape) : ranges[k].start >= da.shape[k])
               => resp.body[1].raw = <<>>
            /\ (\E k \in 1..Len(da.shape) : ranges[k].stop > da.shape[k])
               => Len(resp.body[1].raw) < Prod(c) * size \/ Prod(c) = 0
            /\ (\A k \in 1..Len(da.shape) : ranges[k].stop <= da.shape[k])
               => Len(resp.body[1].raw) = Prod(c) * size
            /\ resp.body[1].layers = resp.calls
            /\ Uncompressed(resp.var) => resp.calls = <<>>

\* the chunk grid of an array: the coordinates 0..ceil(shape_k / c_k) - 1 on
\* each axis that has a chunk size
Grid(shape, c) ==
    {p \in [1..Len(shape) -> 0..MaxExtent] :
        \A k \in 1..Min(Len(shape), Len(c)) : p[k] * c[k] < shape[k]}

Floor(x, c) == [k \in 1..Len(x) |-> x[k] \div c[k]]

\* C10: for a variable whose chunk sizes are all positive, the ranges
\* resolved for two distinct coordinates are disjoint, the payloads of the
\* coordinates of the grid hold every element exactly once, and every
\* element lies in the ranges of exactly one coordinate, floor(x_k / c_k).
C10_GridTiles ==
    idle =>
        \A var \in VariableNames :
            LET da == obj.variables[var]
                c == Zarray(var).chunks
                size == itemsize(da.dtype)
                coords == [1..Len(da.shape) -> 0..MaxExtent]
                ranges(p) == get_indexers(chunk_key(p), c).value
                payload(p) == get_key(obj, metadata, var, chunk_key(p))
            IN  (\A k \in 1..Len(c) : c[k] > 0) =>
                    /\ \A p, q \in coords :
                          p # q =>
                              \E k \in 1..Min(Len(ranges(p)), Len(ranges(q))) :
                                  \/ ranges(p)[k].stop <= ranges(q)[k].start
                                  \/ ranges(q)[k].stop <= ranges(p)[k].start
                    /\ \A p \in Grid(da.shape, c) :
                          /\ payload(p).err = ""
                          /\ Len(payload(p).body[1].raw) =
                                 size * Cardinality(ElementsOf(payload(p).body[1].raw, size))
                    /\ \A o \in Offsets(da.shape) :
                          /\ {p \in Grid(da.shape, c) :
                                 o \in ElementsOf(payload(p).body[1].raw, size)}
                                 = {Floor(Unravel(o, da.shape), c)}
                          /\ {p \in coords : InRanges(Unravel(o, da.shape), ranges(p))}
                                 = {Floor(Unravel(o, da.shape), c)}

\* C10 for the variables that have one chunk size per dimension.
C10_WhenShapesAgree ==
    idle =>
        \A var \in VariableNames :
            LET da == obj.variables[var]
                c == Zarray(var).chunks
                size == itemsize(da.dtype)
                coords == [1..Len(da.shape) -> 0..MaxExtent]
                ranges(p) == get_indexers(chunk_key(p), c).value
                payload(p) == get_key(obj, metadata, var, chunk_key(p))
            IN  (Len(c) = Len(da.shape) /\ \A k \in 1..Len(c) : c[k] > 0) =>
                    /\ \A p, q \in coords :
                          p # q =>
                              \E k \in 1..Len(p) :
                                  \/ ranges(p)[k].stop <= ranges(q)[k].start
                                  \/ ranges(q)[k].stop <= ranges(p)[k].start
                    /\ \A p \in Grid(da.shape, c) :
                          /\ payload(p).err = ""
                          /\ Len(payload(p).body[1].raw) =
                                 size * Cardinality(ElementsOf(payload(p).body[1].raw, size))
                    /\ \A o \in Offsets(da.shape) :
                          /\ Floor(Unravel(o, da.shape), c) \in Grid(da.shape, c)
                          /\ {p \in Grid(da.shape, c) :
                                 o \in ElementsOf(payload(p).body[1].raw, size)}
                                 = {Floor(Unravel(o, da.shape), c)}
                          /\ {p \in coords : InRanges(Unravel(o, da.shape), ranges(p))}
                                 = {Floor(Unravel(o, da.shape), c)}

====
